---- MODULE Spec2Model ----
(***************************************************************************)
(* A model of the indicator, signal and forecast pipeline of the stock     *)
(* prediction engine (engine/indicators.py, engine/predictors.py, app.py). *)
(*                                                                         *)
(* Floats are modelled exactly: a value is a rational n/d, possibly with   *)
(* a radical part (a/b)*sqrt(r) where the code takes a standard deviation, *)
(* or one of the IEEE specials NaN, +inf, -inf.  Rounding error of the     *)
(* binary floats is not modelled.                                          *)
(***************************************************************************)
EXTENDS Integers, Sequences, FiniteSets, TLC

VARIABLES
    pc,           \* position of the call under analysis
    stock_data,   \* the dict handed to the engine (a function on its keys)
    indicators,   \* the IndicatorSet dict (or None) / the classifier's input
    predictions,  \* the Forecast dict returned by predict_price
    signal,       \* what determine_signal returned
    risk_level,   \* what determine_risk_level returned
    ret,          \* return value of the scalar function under analysis
    raised,       \* the exception that left the call, "none" if it returned
    ticker,       \* the ticker symbol of the request to analyze
    response,     \* what analyze returned: the HTTP status and the kind of body
    trend,        \* the three labels of determine_trend
    realized,     \* what app.calculate_volatility returned (key 'volatility')
    support,      \* what calculate_support returned
    resistance,   \* what calculate_resistance returned
    args,         \* the arguments of the scalar function under analysis
    df,           \* the rows (Close, RSI) handed to backtest
    row,          \* backtest's loop index i (0-based, as in the code)
    balance,      \* backtest's cash
    position,     \* backtest's holding, in shares
    equity,       \* backtest's equity of the current step
    equity_curve  \* backtest's list of rounded equities

analyzeVars == <<ticker, response, trend, realized, support, resistance>>

backtestVars == <<df, row, balance, position, equity, equity_curve>>

vars == <<pc, stock_data, indicators, predictions, signal, risk_level, ret, raised,
          analyzeVars, args, backtestVars>>

-----------------------------------------------------------------------------
(* Exact arithmetic on the float values.                                   *)

Abs(x) == IF x < 0 THEN -x ELSE x

Sign(x) == IF x < 0 THEN -1 ELSE IF x > 0 THEN 1 ELSE 0

Min2(x, y) == IF x <= y THEN x ELSE y

Max2(x, y) == IF x >= y THEN x ELSE y

RECURSIVE GCD(_, _)
GCD(x, y) == IF y = 0 THEN x ELSE GCD(y, x % y)

\* the finite value n/d + (a/b)*sqrt(r), in lowest terms, d > 0, b > 0
Surd(n, d, a, b, r) ==
    LET g == GCD(Abs(n), Abs(d))
        dd == IF g = 0 THEN 1 ELSE Abs(d) \div g
        nn == IF g = 0 THEN 0 ELSE (Sign(d) * n) \div g
        plain == a = 0 \/ r = 0
        h == IF plain THEN 1 ELSE GCD(Abs(a), Abs(b))
    IN  [k |-> "num", n |-> nn, d |-> dd,
         a |-> IF plain THEN 0 ELSE (Sign(b) * a) \div h,
         b |-> IF plain THEN 1 ELSE Abs(b) \div h,
         r |-> IF plain THEN 0 ELSE r]

Num(n, d) == Surd(n, d, 0, 1, 0)

NaN == [k |-> "nan", n |-> 0, d |-> 1, a |-> 0, b |-> 1, r |-> 0]

Inf(s) == [k |-> "inf", n |-> s, d |-> 1, a |-> 0, b |-> 1, r |-> 0]

\* a str value such as 'abc', on which float() raises ValueError
Str == [k |-> "str", n |-> 0, d |-> 1, a |-> 0, b |-> 1, r |-> 0]

IsNum(x) == x.k = "num"

IsNaN(x) == x.k = "nan"

IsRational(x) == x.k = "num" /\ x.a = 0

\* sign of a value: rationals and infinities
SignOf(x) == Sign(x.n)

\* IEEE addition of rationals and specials
FAdd(x, y) ==
    IF IsNaN(x) \/ IsNaN(y) THEN NaN
    ELSE IF x.k = "inf" /\ y.k = "inf" THEN (IF x.n = y.n THEN x ELSE NaN)
    ELSE IF x.k = "inf" THEN x
    ELSE IF y.k = "inf" THEN y
    ELSE LET g == GCD(x.d, y.d)
         IN  Num(x.n * (y.d \div g) + y.n * (x.d \div g), (x.d \div g) * y.d)

FNeg(x) == IF IsNaN(x) THEN NaN ELSE [x EXCEPT !.n = -x.n]

FSub(x, y) == FAdd(x, FNeg(y))

\* IEEE multiplication
FMul(x, y) ==
    IF IsNaN(x) \/ IsNaN(y) THEN NaN
    ELSE IF x.k = "inf" \/ y.k = "inf"
         THEN (IF SignOf(x) * SignOf(y) = 0 THEN NaN ELSE Inf(SignOf(x) * SignOf(y)))
    ELSE LET g1 == GCD(Abs(x.n), y.d)
             g2 == GCD(Abs(y.n), x.d)
             h1 == IF g1 = 0 THEN 1 ELSE g1
             h2 == IF g2 = 0 THEN 1 ELSE g2
         IN  Num((x.n \div h1) * (y.n \div h2), (x.d \div h2) * (y.d \div h1))

\* IEEE division: x/0 is inf with the sign of x, 0/0 is NaN, never an exception
FDiv(x, y) ==
    IF IsNaN(x) \/ IsNaN(y) THEN NaN
    ELSE IF x.k = "inf" /\ y.k = "inf" THEN NaN
    ELSE IF x.k = "inf" THEN Inf(x.n * (IF y.n < 0 THEN -1 ELSE 1))
    ELSE IF y.k = "inf" THEN Num(0, 1)
    ELSE IF y.n = 0 THEN (IF x.n = 0 THEN NaN ELSE Inf(Sign(x.n)))
    ELSE FMul(x, Num(y.d * Sign(y.n), Abs(y.n)))

\* x < y on rationals and infinities; any comparison with NaN is False
FLt(x, y) ==
    IF IsNaN(x) \/ IsNaN(y) THEN FALSE
    ELSE IF x.k = "inf" THEN x.n < 0 /\ ~(y.k = "inf" /\ y.n < 0)
    ELSE IF y.k = "inf" THEN y.n > 0
    ELSE x.n * y.d < y.n * x.d

FGt(x, y) == FLt(y, x)

FEq(x, y) == ~IsNaN(x) /\ ~IsNaN(y) /\ ~FLt(x, y) /\ ~FLt(y, x)

Int2F(i) == Num(i, 1)

\* sign of sqrt(r) - p / q, for r >= 0 and p >= 0 and q > 0; 46340 is the
\* largest k whose square is a 32-bit integer
CmpSqrt(r, p, q) ==
    LET k == p \div q
        rem == p % q
    IN  IF k > 46340 \/ r < k * k THEN -1
        ELSE IF k < 46340 /\ r >= (k + 1) * (k + 1) THEN 1
        ELSE Sign(q * q * (r - k * k) - (2 * k * q * rem + rem * rem))

\* sign of x - t, for a finite value x and an integer t
CmpInt(x, t) ==
    LET qn == t * x.d - x.n
    IN  IF x.a = 0 THEN Sign(-qn)
        ELSE IF Sign(x.a) # Sign(qn) THEN (IF Sign(x.a) > Sign(qn) THEN 1 ELSE -1)
        ELSE Sign(x.a) * CmpSqrt(x.r, Abs(qn) * x.b, Abs(x.a) * x.d)

\* c - x for an integer c and a finite value x
IntMinus(c, x) == Surd(c * x.d - x.n, x.d, -x.a, x.b, x.r)

\* q * x for a rational q and a finite value x
Scale(q, x) ==
    LET whole == FMul(q, Num(x.n, x.d))
        part == FMul(q, Num(x.a, x.b))
    IN  Surd(whole.n, whole.d, part.n, part.d, x.r)

\* x + y for a finite value x and a rational y
PlusRational(x, y) ==
    LET whole == FAdd(Num(x.n, x.d), y)
    IN  Surd(whole.n, whole.d, x.a, x.b, x.r)

-----------------------------------------------------------------------------
(* Sums over a series of numbers (a pandas Series of finite floats).       *)

RECURSIVE SumSeq(_, _, _)
SumSeq(s, lo, hi) == IF lo > hi THEN 0 ELSE s[hi] + SumSeq(s, lo, hi - 1)

RECURSIVE SumSq(_, _, _)
SumSq(s, lo, hi) == IF lo > hi THEN 0 ELSE s[hi] * s[hi] + SumSq(s, lo, hi - 1)

RECURSIVE MinSeq(_, _, _)
MinSeq(s, lo, hi) == IF lo = hi THEN s[lo] ELSE Min2(s[hi], MinSeq(s, lo, hi - 1))

RECURSIVE MaxSeq(_, _, _)
MaxSeq(s, lo, hi) == IF lo = hi THEN s[lo] ELSE Max2(s[hi], MaxSeq(s, lo, hi - 1))

Last(s) == s[Len(s)]

-----------------------------------------------------------------------------
(* engine/indicators.py                                                    *)

RsiPeriod == 14

MacdFast == 12

MacdSlow == 26

MacdSignal == 9

BollingerPeriod == 20

BollingerStdDev == 2

StochKPeriod == 14

StochDPeriod == 3

AtrPeriod == 14

\* an element of an input array that is not a number ('abc', None)
Text == -1

\* delta.where(delta > 0, 0): the first delta is NaN and becomes 0
Gain(prices, i) ==
    IF i > 1 /\ prices[i] > prices[i - 1] THEN prices[i] - prices[i - 1] ELSE 0

\* -delta.where(delta < 0, 0)
Loss(prices, i) ==
    IF i > 1 /\ prices[i] < prices[i - 1] THEN prices[i - 1] - prices[i] ELSE 0

RECURSIVE SumGain(_, _, _)
SumGain(prices, lo, hi) ==
    IF lo > hi THEN 0 ELSE Gain(prices, hi) + SumGain(prices, lo, hi - 1)

RECURSIVE SumLoss(_, _, _)
SumLoss(prices, lo, hi) ==
    IF lo > hi THEN 0 ELSE Loss(prices, hi) + SumLoss(prices, lo, hi - 1)

\* rolling(window).mean() of a series of finite numbers, at its last index
RollingMeanLast(total, n, window) ==
    IF n < window THEN NaN ELSE Num(total, window)

\* RsiValue with a zero average loss treated as undefined
RsiValue_ZeroLossUndefined(gain, loss) ==
    IF loss.n = 0 THEN NaN
    ELSE FSub(Int2F(100), FDiv(Int2F(100), FAdd(Int2F(1), FDiv(gain, loss))))

\* 100 - 100 / (1 + gain / loss), in float arithmetic
RsiValue(gain, loss) ==
    FSub(Int2F(100), FDiv(Int2F(100), FAdd(Int2F(1), FDiv(gain, loss))))

calculate_rsi(prices) ==
    LET n == Len(prices)
        lo == n - RsiPeriod + 1
        gain == RollingMeanLast(IF n < RsiPeriod THEN 0 ELSE SumGain(prices, lo, n),
                                n, RsiPeriod)
        loss == RollingMeanLast(IF n < RsiPeriod THEN 0 ELSE SumLoss(prices, lo, n),
                                n, RsiPeriod)
        rsi == RsiValue(gain, loss)
    IN  IF n > 0 /\ ~IsNaN(rsi) THEN rsi ELSE Int2F(50)

\* one step of ewm(span, adjust=False).mean(): alpha = 2 / (span + 1); pandas
\* leaves the average alone when the new sample equals it
EwmStep(prev, cur, span) ==
    IF prev = cur THEN prev
    ELSE FAdd(FMul(Num(span - 1, span + 1), prev), FMul(Num(2, span + 1), cur))

\* the whole ewm series of a series of values, seeded by its first value
RECURSIVE Ewm(_, _)
Ewm(xs, span) ==
    IF Len(xs) = 0 THEN << >>
    ELSE IF Len(xs) = 1 THEN xs
    ELSE LET prev == Ewm(SubSeq(xs, 1, Len(xs) - 1), span)
         IN  Append(prev, EwmStep(prev[Len(prev)], xs[Len(xs)], span))

AsFloats(prices) == [i \in 1..Len(prices) |-> Int2F(prices[i])]

calculate_macd(prices) ==
    LET n == Len(prices)
        exp1 == Ewm(AsFloats(prices), MacdFast)
        exp2 == Ewm(AsFloats(prices), MacdSlow)
        macd == [i \in 1..n |-> FSub(exp1[i], exp2[i])]
        signal_line == Ewm(macd, MacdSignal)
    IN  IF n = 0
        THEN [macd |-> Int2F(0), signal |-> Int2F(0), histogram |-> Int2F(0)]
        ELSE [macd |-> macd[n], signal |-> signal_line[n],
              histogram |-> FSub(macd[n], signal_line[n])]

calculate_ma(prices, period) ==
    LET n == Len(prices)
    IN  IF n = 0 THEN Int2F(0)                      \* IndexError, then len(prices) = 0
        ELSE IF n < period THEN Int2F(prices[n])    \* the rolling mean is NaN
        ELSE Num(SumSeq(prices, n - period + 1, n), period)

calculate_ema(prices, period) ==
    LET n == Len(prices)
    IN  IF n = 0 THEN Int2F(0)
        ELSE Ewm(AsFloats(prices), period)[n]

\* calculate_bollinger_bands answering every series with the documented
\* fallback, last close times 1.05, 1 and 0.95
calculate_bollinger_bands_AlwaysFallback(prices) ==
    LET n == Len(prices)
    IN  IF n = 0
        THEN [upper |-> Int2F(0), middle |-> Int2F(0), lower |-> Int2F(0)]
        ELSE [upper |-> Num(prices[n] * 105, 100),
              middle |-> Int2F(prices[n]),
              lower |-> Num(prices[n] * 95, 100)]

\* rolling(20).std() is sqrt(V / (20 * 19)) with V = 20 * sum(x^2) - sum(x)^2
calculate_bollinger_bands(prices) ==
    LET n == Len(prices)
        w == BollingerPeriod
        sx == SumSeq(prices, n - w + 1, n)
        v == w * SumSq(prices, n - w + 1, n) - sx * sx
        q == w * (w - 1)
    IN  IF n = 0
        THEN [upper |-> Int2F(0), middle |-> Int2F(0), lower |-> Int2F(0)]
        ELSE IF n < w
        THEN [upper |-> NaN, middle |-> NaN, lower |-> NaN]   \* no isna test here
        ELSE [upper |-> Surd(sx, w, BollingerStdDev, q, q * v),
              middle |-> Num(sx, w),
              lower |-> Surd(sx, w, -BollingerStdDev, q, q * v)]

\* StochK measuring the close from the highest high instead of the lowest low
StochK_FromHigh(high, low, close, i) ==
    IF i < StochKPeriod THEN NaN
    ELSE LET lowest_low == MinSeq(low, i - StochKPeriod + 1, i)
             highest_high == MaxSeq(high, i - StochKPeriod + 1, i)
         IN  FMul(Int2F(100),
                  FDiv(Int2F(close[i] - highest_high), Int2F(highest_high - lowest_low)))

\* %K at index i: NaN until the 14-bar window is full
StochK(high, low, close, i) ==
    IF i < StochKPeriod THEN NaN
    ELSE LET lowest_low == MinSeq(low, i - StochKPeriod + 1, i)
             highest_high == MaxSeq(high, i - StochKPeriod + 1, i)
         IN  FMul(Int2F(100),
                  FDiv(Int2F(close[i] - lowest_low), Int2F(highest_high - lowest_low)))

\* k.rolling(3).mean() at index n: the window needs 3 finite values (rolling
\* turns inf into NaN before it counts)
StochD(high, low, close, n) ==
    IF n < StochDPeriod THEN NaN
    ELSE LET k1 == StochK(high, low, close, n - 2)
             k2 == StochK(high, low, close, n - 1)
             k3 == StochK(high, low, close, n)
         IN  IF IsNum(k1) /\ IsNum(k2) /\ IsNum(k3)
             THEN FDiv(FAdd(FAdd(k1, k2), k3), Int2F(StochDPeriod))
             ELSE NaN

calculate_stochastic(high, low, close) ==
    LET n == Len(close)
        k == StochK(high, low, close, n)
        d == StochD(high, low, close, n)
    IN  [k |-> IF n > 0 /\ ~IsNaN(k) THEN k ELSE Int2F(50),
         d |-> IF n > 0 /\ ~IsNaN(d) THEN d ELSE Int2F(50)]

\* true range of bar i; close.shift() is NaN at the first bar and max skips it
TrueRange(high, low, close, i) ==
    IF i = 1 THEN high[i] - low[i]
    ELSE Max2(high[i] - low[i],
              Max2(Abs(high[i] - close[i - 1]), Abs(low[i] - close[i - 1])))

RECURSIVE SumTR(_, _, _, _, _)
SumTR(high, low, close, lo, hi) ==
    IF lo > hi THEN 0
    ELSE TrueRange(high, low, close, hi) + SumTR(high, low, close, lo, hi - 1)

calculate_atr(high, low, close) ==
    LET n == Len(close)
    IN  IF n < AtrPeriod THEN Int2F(0)
        ELSE Num(SumTR(high, low, close, n - AtrPeriod + 1, n), AtrPeriod)

-----------------------------------------------------------------------------
(* Python dicts are functions on their keys; None is a value of its own.   *)

None == [py_none |-> TRUE]

IsNone(x) == "py_none" \in DOMAIN x

Has(dict, key) == key \in DOMAIN dict

\* dict.get(key, default)
Get(dict, key, default) == IF key \in DOMAIN dict THEN dict[key] ELSE default

\* the dict without the keys in drop
Without(dict, drop) == [key \in (DOMAIN dict) \ drop |-> dict[key]]

OhlcvFields == {"close", "high", "low", "volume"}

AllNumeric(array) == \A i \in 1..Len(array) : array[i] # Text

\* the try block of calculate_indicators is left by an exception: a KeyError
\* of stock_data[...], a ValueError of float(), or the ValueError of
\* pd.DataFrame for arrays of unequal length
TransformFails(sd) ==
    \/ \E f \in OhlcvFields : ~Has(sd, f)
    \/ \E f \in OhlcvFields : ~AllNumeric(sd[f])
    \/ \E f \in OhlcvFields : Len(sd[f]) # Len(sd["close"])

\* stock_data['close'][-1] if stock_data['close'] else 0, unconverted
RawLastClose(sd) ==
    IF Len(sd["close"]) = 0 THEN Int2F(0)
    ELSE IF Last(sd["close"]) = Text THEN Str
    ELSE Int2F(Last(sd["close"]))

\* the dict built by the try block
IndicatorSet(sd) ==
    LET macd_data == calculate_macd(sd["close"])
        bb == calculate_bollinger_bands(sd["close"])
        stoch == calculate_stochastic(sd["high"], sd["low"], sd["close"])
    IN  [rsi |-> calculate_rsi(sd["close"]),
         macd |-> macd_data.macd,
         macd_signal |-> macd_data.signal,
         macd_histogram |-> macd_data.histogram,
         ma20 |-> calculate_ma(sd["close"], 20),
         ma50 |-> calculate_ma(sd["close"], 50),
         ma200 |-> calculate_ma(sd["close"], 200),
         ema12 |-> calculate_ema(sd["close"], 12),
         ema26 |-> calculate_ema(sd["close"], 26),
         bb_upper |-> bb.upper,
         bb_middle |-> bb.middle,
         bb_lower |-> bb.lower,
         stoch_k |-> stoch.k,
         stoch_d |-> stoch.d,
         atr |-> calculate_atr(sd["high"], sd["low"], sd["close"]),
         volume_ma |-> calculate_ma(sd["volume"], 20)]

\* the dict of the except block
MinimalFallback(sd) ==
    [rsi |-> Int2F(50), macd |-> Int2F(0),
     ma20 |-> RawLastClose(sd), ma50 |-> RawLastClose(sd)]

\* calculate_indicators giving up on a series shorter than the RSI window
calculate_indicators_ShortFails(sd) ==
    IF ~TransformFails(sd) /\ Len(sd["close"]) >= RsiPeriod
    THEN [raised |-> "none", value |-> IndicatorSet(sd)]
    ELSE IF ~Has(sd, "close")
    THEN [raised |-> "KeyError", value |-> None]
    ELSE [raised |-> "none", value |-> MinimalFallback(sd)]

\* calculate_indicators: what it returns, or the exception that leaves it
calculate_indicators(sd) ==
    IF ~TransformFails(sd)
    THEN [raised |-> "none", value |-> IndicatorSet(sd)]
    ELSE IF ~Has(sd, "close")
    THEN [raised |-> "KeyError", value |-> None]    \* raised in the except block
    ELSE [raised |-> "none", value |-> MinimalFallback(sd)]

-----------------------------------------------------------------------------
(* app.py: the decision layer.                                             *)

\* determine_signal with a tie counted as a buy
determine_signal_TieBuys(ind) ==
    LET rsi == Get(ind, "rsi", Int2F(50))
        macd == Get(ind, "macd", Int2F(0))
        buy_signals == (IF FLt(rsi, Int2F(30)) THEN 1 ELSE 0)
                       + (IF FGt(macd, Int2F(0)) THEN 1 ELSE 0)
        sell_signals == (IF ~FLt(rsi, Int2F(30)) /\ FGt(rsi, Int2F(70)) THEN 1 ELSE 0)
                        + (IF ~FGt(macd, Int2F(0)) /\ FLt(macd, Int2F(0)) THEN 1 ELSE 0)
    IN  IF buy_signals >= sell_signals THEN "BUY"
        ELSE IF sell_signals > buy_signals THEN "SELL"
        ELSE "HOLD"

determine_signal(ind) ==
    LET rsi == Get(ind, "rsi", Int2F(50))
        macd == Get(ind, "macd", Int2F(0))
        buy_signals == (IF FLt(rsi, Int2F(30)) THEN 1 ELSE 0)
                       + (IF FGt(macd, Int2F(0)) THEN 1 ELSE 0)
        sell_signals == (IF ~FLt(rsi, Int2F(30)) /\ FGt(rsi, Int2F(70)) THEN 1 ELSE 0)
                        + (IF ~FGt(macd, Int2F(0)) /\ FLt(macd, Int2F(0)) THEN 1 ELSE 0)
    IN  IF buy_signals > sell_signals THEN "BUY"
        ELSE IF sell_signals > buy_signals THEN "SELL"
        ELSE "HOLD"

\* determine_risk_level with the bounds 70 and 30 included in High
determine_risk_level_Inclusive(ind) ==
    LET rsi == Get(ind, "rsi", Int2F(50))
    IN  IF ~FLt(rsi, Int2F(70)) \/ ~FGt(rsi, Int2F(30)) THEN "High"
        ELSE IF FGt(rsi, Int2F(60)) \/ FLt(rsi, Int2F(40)) THEN "Medium"
        ELSE "Low"

determine_risk_level(ind) ==
    LET rsi == Get(ind, "rsi", Int2F(50))
    IN  IF FGt(rsi, Int2F(70)) \/ FLt(rsi, Int2F(30)) THEN "High"
        ELSE IF FGt(rsi, Int2F(60)) \/ FLt(rsi, Int2F(40)) THEN "Medium"
        ELSE "Low"

-----------------------------------------------------------------------------
(* engine/predictors.py                                                    *)

RegressionWindow == 30

PeriodsAhead == 5

RECURSIVE SumIndexed(_, _)
\* sum of x * y over the 0-based sample index x
SumIndexed(data, i) ==
    IF i = 0 THEN 0 ELSE (i - 1) * data[i] + SumIndexed(data, i - 1)

\* ordinary least squares of data against its 0-based index, evaluated at
\* future_x; one sample fits the horizontal line through it
OlsPredict(data, future_x) ==
    LET n == Len(data)
        sx == (n * (n - 1)) \div 2
        sxx == ((n - 1) * n * (2 * n - 1)) \div 6
        sy == SumSeq(data, 1, n)
        sxy == SumIndexed(data, n)
        den == n * sxx - sx * sx
        slope == IF den = 0 THEN Int2F(0) ELSE Num(n * sxy - sx * sy, den)
        intercept == FDiv(FSub(Int2F(sy), FMul(slope, Int2F(sx))), Int2F(n))
    IN  FAdd(intercept, FMul(slope, Int2F(future_x)))

linear_regression_predict(prices) ==
    LET total == Len(prices)
        data == SubSeq(prices, Max2(1, total - RegressionWindow + 1), total)
    IN  IF total = 0 THEN Int2F(0)        \* fit() raises on no samples
        ELSE OlsPredict(data, Len(data) + PeriodsAhead)

VolatilityPeriod == 20

RECURSIVE LCMOf(_, _, _)
\* least common multiple of prices[lo..hi]
LCMOf(prices, lo, hi) ==
    IF lo > hi THEN 1
    ELSE LET rest == LCMOf(prices, lo, hi - 1)
         IN  (rest \div GCD(rest, prices[hi])) * prices[hi]

RECURSIVE SumReturns(_, _, _, _)
\* sum of the returns (p[i+1] - p[i]) / p[i], i in lo..hi, in units of 1/unit
SumReturns(prices, lo, hi, unit) ==
    IF lo > hi THEN 0
    ELSE (prices[hi + 1] - prices[hi]) * (unit \div prices[hi])
         + SumReturns(prices, lo, hi - 1, unit)

RECURSIVE SumSqReturns(_, _, _, _)
SumSqReturns(prices, lo, hi, unit) ==
    IF lo > hi THEN 0
    ELSE LET r == (prices[hi + 1] - prices[hi]) * (unit \div prices[hi])
         IN  r * r + SumSqReturns(prices, lo, hi - 1, unit)

\* np.std(np.diff(w) / w[:-1]) * 100 over the window w = prices[-20:]: of m
\* returns it is 100 * sqrt(m * sum(r^2) - sum(r)^2) / m; of no return (one
\* price or none) np.std warns and gives NaN, it does not raise
calculate_volatility(prices) ==
    LET total == Len(prices)
        first == Max2(1, total - VolatilityPeriod + 1)
        m == total - first
        unit == LCMOf(prices, first, total - 1)
        sr == SumReturns(prices, first, total - 1, unit)
        sq == SumSqReturns(prices, first, total - 1, unit)
    IN  IF m < 1 \/ \E i \in first..(total - 1) : prices[i] = 0 THEN NaN
        ELSE Surd(0, 1, 100, m * unit, m * sq - sr * sr)

\* a comparison with this operand raises TypeError
Incomparable(x) == x.k = "str"

\* calculate_trend_strength counting an RSI of exactly 70 as overbought
calculate_trend_strength_OverboughtAt70(prices, ma20, ma50, rsi, macd) ==
    LET current_price == Int2F(Last(prices))
        by_price == IF FGt(current_price, ma20) THEN 6
                    ELSE IF FLt(current_price, ma20) THEN -6 ELSE 0
        by_ma == IF FGt(ma20, ma50) THEN 4 ELSE IF FLt(ma20, ma50) THEN -4 ELSE 0
        by_rsi == IF ~FLt(rsi, Int2F(70)) THEN -6
                  ELSE IF FGt(rsi, Int2F(50)) THEN 3
                  ELSE IF FLt(rsi, Int2F(30)) THEN 6
                  ELSE IF FLt(rsi, Int2F(50)) THEN -3 ELSE 0
        by_macd == IF FGt(macd, Int2F(0)) THEN 4
                   ELSE IF FLt(macd, Int2F(0)) THEN -4 ELSE 0
    IN  Num(Max2(-20, Min2(20, by_price + by_ma + by_rsi + by_macd)), 20)

\* strength in twentieths: 0.3 is 6, 0.2 is 4, 0.15 is 3
calculate_trend_strength(prices, ma20, ma50, rsi, macd) ==
    LET current_price == Int2F(Last(prices))
        by_price == IF FGt(current_price, ma20) THEN 6
                    ELSE IF FLt(current_price, ma20) THEN -6 ELSE 0
        by_ma == IF FGt(ma20, ma50) THEN 4 ELSE IF FLt(ma20, ma50) THEN -4 ELSE 0
        by_rsi == IF FGt(rsi, Int2F(70)) THEN -6
                  ELSE IF FGt(rsi, Int2F(50)) THEN 3
                  ELSE IF FLt(rsi, Int2F(30)) THEN 6
                  ELSE IF FLt(rsi, Int2F(50)) THEN -3 ELSE 0
        by_macd == IF FGt(macd, Int2F(0)) THEN 4
                   ELSE IF FLt(macd, Int2F(0)) THEN -4 ELSE 0
        strength == by_price + by_ma + by_rsi + by_macd
    IN  IF Incomparable(ma20) \/ Incomparable(ma50) \/ Incomparable(rsi)
           \/ Incomparable(macd)
        THEN Int2F(0)
        ELSE Num(Max2(-20, Min2(20, strength)), 20)

\* np.random.uniform(-volatility/100, volatility/100) raises OverflowError
\* when the range is not finite
UniformRaises(volatility) == ~IsNum(volatility)

\* np.random.uniform draws from [low, high): the range is cut in
\* 2 * DrawScale steps and a draw is a step in -DrawScale..DrawScale - 1
DrawScale == 10

\* predict_next_period drawing from twice the range
predict_next_period_DoubleRange(current_price, trend_strength, volatility, hours, draw) ==
    LET trend_factor == FAdd(Int2F(1), FMul(trend_strength, Num(hours, 1000)))
        base == FMul(Int2F(current_price), trend_factor)
        random_factor == Scale(Num(draw, 50 * DrawScale), volatility)
    IN  Scale(base, PlusRational(random_factor, Int2F(1)))

\* draw picks the perturbation inside its range:
\* (draw / DrawScale) * volatility / 100
predict_next_period(current_price, trend_strength, volatility, hours, draw) ==
    LET trend_factor == FAdd(Int2F(1), FMul(trend_strength, Num(hours, 1000)))
        base == FMul(Int2F(current_price), trend_factor)
        random_factor == Scale(Num(draw, 100 * DrawScale), volatility)
    IN  Scale(base, PlusRational(random_factor, Int2F(1)))

\* min(volatility * 2, 30): Python's min keeps a NaN first argument
MinWith30(twice) ==
    IF ~IsNum(twice) THEN twice
    ELSE IF CmpInt(twice, 30) > 0 THEN Int2F(30) ELSE twice

\* np.clip(confidence, 0, 100)
Clip(x, lo, hi) ==
    IF ~IsNum(x) THEN x
    ELSE IF CmpInt(x, lo) < 0 THEN Int2F(lo)
    ELSE IF CmpInt(x, hi) > 0 THEN Int2F(hi)
    ELSE x

calculate_confidence(volatility, data_points) ==
    LET reduction == MinWith30(IF IsNum(volatility)
                               THEN Scale(Int2F(2), volatility) ELSE volatility)
        shortfall == IF data_points < 30 THEN 30 - data_points ELSE 0
    IN  IF ~IsNum(reduction) THEN NaN
        ELSE Clip(IntMinus(70 - shortfall, reduction), 0, 100)

\* the try block of predict_price is left by an exception: KeyError of
\* stock_data['close'], ValueError of float(), IndexError of closes[-1],
\* AttributeError of None.get, OverflowError of np.random.uniform
ForecastFails(sd, ind) ==
    \/ ~Has(sd, "close")
    \/ ~AllNumeric(sd["close"])
    \/ Len(sd["close"]) = 0
    \/ IsNone(ind)
    \/ UniformRaises(calculate_volatility(sd["close"]))

\* the dict built by the try block; draws are the three perturbations
Forecast(sd, ind, draws) ==
    LET closes == sd["close"]
        current_price == Last(closes)
        rsi == Get(ind, "rsi", Int2F(50))
        macd == Get(ind, "macd", Int2F(0))
        ma20 == Get(ind, "ma20", Int2F(current_price))
        ma50 == Get(ind, "ma50", Int2F(current_price))
        volatility == calculate_volatility(closes)
        trend_strength == calculate_trend_strength(closes, ma20, ma50, rsi, macd)
    IN  [next_hour |->
             predict_next_period(current_price, trend_strength, volatility, 1, draws[1]),
         next_day |->
             predict_next_period(current_price, trend_strength, volatility, 24, draws[2]),
         next_week |->
             predict_next_period(current_price, trend_strength, volatility, 168, draws[3]),
         confidence |-> calculate_confidence(volatility, Len(closes)),
         ml_prediction |-> linear_regression_predict(closes)]

\* the dict of the except block, for the last close or 100.0
ForecastFallback(current) ==
    [next_hour |-> current, next_day |-> current, next_week |-> current,
     confidence |-> Int2F(50)]

\* predict_price: what it returns, or the exception that leaves it
predict_price(sd, ind, draws) ==
    IF ~ForecastFails(sd, ind)
    THEN [raised |-> "none", value |-> Forecast(sd, ind, draws)]
    ELSE IF ~Has(sd, "close")
    THEN [raised |-> "KeyError", value |-> None]
    ELSE IF Len(sd["close"]) = 0
    THEN [raised |-> "none", value |-> ForecastFallback(Int2F(100))]
    ELSE IF Last(sd["close"]) = Text
    THEN [raised |-> "ValueError", value |-> None]
    ELSE [raised |-> "none", value |-> ForecastFallback(Int2F(Last(sd["close"])))]

-----------------------------------------------------------------------------
(* app.py: the levels, the trend labels and the analyze endpoint.          *)

\* the timeframes analyze asks for
Timeframes == {"short", "medium", "long"}

\* a str value compared with a number raises TypeError
TrendRaises(ind) ==
    Incomparable(Get(ind, "ma20", Int2F(0))) # Incomparable(Get(ind, "ma50", Int2F(0)))

\* determine_trend with the long timeframe read against the trend
determine_trend_ByTimeframe(ind, timeframe) ==
    LET ma20 == Get(ind, "ma20", Int2F(0))
        ma50 == Get(ind, "ma50", Int2F(0))
    IN  IF timeframe = "long"
        THEN (IF FGt(ma20, ma50) THEN "Bearish"
              ELSE IF FLt(ma20, ma50) THEN "Bullish" ELSE "Neutral")
        ELSE (IF FGt(ma20, ma50) THEN "Bullish"
              ELSE IF FLt(ma20, ma50) THEN "Bearish" ELSE "Neutral")

\* the labels are the words of the code's strings, without their emoji
determine_trend(ind, timeframe) ==
    LET ma20 == Get(ind, "ma20", Int2F(0))
        ma50 == Get(ind, "ma50", Int2F(0))
    IN  IF FGt(ma20, ma50) THEN "Bullish"
        ELSE IF FLt(ma20, ma50) THEN "Bearish"
        ELSE "Neutral"

\* the dict built for the key 'trend'
TrendLabels(ind) ==
    [short_term |-> determine_trend(ind, "short"),
     medium_term |-> determine_trend(ind, "medium"),
     long_term |-> determine_trend(ind, "long")]

TradingDays == 252

\* app.calculate_volatility: std of the returns of all closes, times
\* sqrt(252), times 100; the int 0 for fewer than two closes
app_calculate_volatility(sd) ==
    LET closes == Get(sd, "close", << >>)
        total == Len(closes)
        m == total - 1
        unit == LCMOf(closes, 1, m)
        sr == SumReturns(closes, 1, m, unit)
        sq == SumSqReturns(closes, 1, m, unit)
    IN  IF total < 2 THEN Int2F(0)
        ELSE IF \E j \in 1..m : closes[j] = 0 THEN NaN
        ELSE Surd(0, 1, 100, m * unit, TradingDays * (m * sq - sr * sr))

LevelWindow == 20

\* calculate_support looking at every bar instead of the last 20
calculate_support_AllBars(sd) ==
    LET lows == Get(sd, "low", << >>)
    IN  IF Len(lows) = 0 THEN Int2F(0)
        ELSE Int2F(MinSeq(lows, 1, Len(lows)))

\* float(np.min(lows[-20:])), the int 0 without lows
calculate_support(sd) ==
    LET lows == Get(sd, "low", << >>)
        n == Len(lows)
    IN  IF n = 0 THEN Int2F(0)
        ELSE Int2F(MinSeq(lows, Max2(1, n - LevelWindow + 1), n))

\* float(np.max(highs[-20:])), the int 0 without highs
calculate_resistance(sd) ==
    LET highs == Get(sd, "high", << >>)
        n == Len(highs)
    IN  IF n = 0 THEN Int2F(0)
        ELSE Int2F(MaxSeq(highs, Max2(1, n - LevelWindow + 1), n))

\* float(x) raises ValueError on an element of the array under the key
FloatRaises(sd, key) == ~AllNumeric(Get(sd, key, << >>))

AnalysisKeys ==
    {"current_price", "price_change", "price_change_percent", "volume"}

\* an exception reaches the except clause of analyze (status 500), given
\* what calculate_indicators and predict_price did
AnalyzeRaises(sd, ci, pp) ==
    \/ ci.raised # "none"
    \/ pp.raised # "none"
    \/ Len(sd["close"]) = 0                     \* IndexError of close[-1]
    \/ FloatRaises(sd, "close")
    \/ TrendRaises(ci.value)
    \/ (Has(sd, "volume") /\ Len(sd["volume"]) = 0)
    \/ FloatRaises(sd, "low")
    \/ FloatRaises(sd, "high")

\* the scalar fields of the response of a successful request
Summary(sd) ==
    LET closes == sd["close"]
        n == Len(closes)
        current_price == Int2F(closes[n])
        previous_price == IF n > 1 THEN Int2F(closes[n - 1]) ELSE current_price
        price_change == FSub(current_price, previous_price)
    IN  [current_price |-> current_price,
         price_change |-> price_change,
         price_change_percent |->
             IF FGt(previous_price, Int2F(0))
             THEN FMul(FDiv(price_change, previous_price), Int2F(100))
             ELSE Int2F(0),
         volume |-> IF ~Has(sd, "volume") THEN Int2F(0)
                    ELSE IF Last(sd["volume"]) = Text THEN Str
                    ELSE Int2F(Last(sd["volume"]))]

\* the status analyze answers with
analyze_status(symbol, sd, ci, pp) ==
    IF symbol = "" THEN 400
    ELSE IF DOMAIN sd = {} \/ Has(sd, "error") THEN 404
    ELSE IF AnalyzeRaises(sd, ci, pp) THEN 500
    ELSE 200

\* the locals of a request that analyze answers with an AnalysisResult
Analysis(sd, ind, pred) ==
    [indicators |-> ind,
     predictions |-> pred,
     signal |-> determine_signal(ind),
     trend |-> TrendLabels(ind),
     realized |-> app_calculate_volatility(sd),
     risk_level |-> determine_risk_level(ind),
     support |-> calculate_support(sd),
     resistance |-> calculate_resistance(sd),
     body |-> Summary(sd)]

-----------------------------------------------------------------------------
(* engine/backtest.py                                                      *)

StartBalance == 10000

\* round(x, 2) of a finite rational: to the nearest hundredth, ties to even
Round2(x) ==
    LET whole == (100 * x.n) \div x.d
        rest == (100 * x.n) % x.d
    IN  IF 2 * rest < x.d THEN Num(whole, 100)
        ELSE IF 2 * rest > x.d THEN Num(whole + 1, 100)
        ELSE IF whole % 2 = 0 THEN Num(whole, 100)
        ELSE Num(whole + 1, 100)

\* the buy test without the test of the position
Buys_AnyPosition(rsi, held) == FLt(rsi, Int2F(30))

\* rsi < 30 and position == 0
Buys(rsi, held) == FLt(rsi, Int2F(30)) /\ held = Int2F(0)

\* the elif: rsi > 70 and position > 0, the buy test having failed
Sells(rsi, held) ==
    ~Buys(rsi, held) /\ FGt(rsi, Int2F(70)) /\ FGt(held, Int2F(0))

\* what backtest returns for a non-empty equity curve
BacktestResult(curve) ==
    [equity_curve |-> curve,
     final_equity |-> Round2(Last(curve)),
     profit |-> Round2(FSub(Last(curve), Int2F(StartBalance)))]

-----------------------------------------------------------------------------
(* The inputs: a price series is a flat run of bars at 100 followed by at  *)
(* most two bars that move by 10.  With three moving bars the exact        *)
(* denominator of macd_signal, 5^3 * 351^3, no longer fits TLC's integers. *)

MaxPad == 60

Pads == 0..MaxPad

TailValues == {90, 100, 110}

Tails == {<< >>} \cup {<<x>> : x \in TailValues}
                 \cup {<<x, y>> : x \in TailValues, y \in TailValues}

\* high = close + up, low = close - down: a bar around its close, a bar that
\* is a point, a bar whose high lies below its close, a flat bar below it
Shapes == {<<5, 5>>, <<0, 0>>, <<-5, 10>>, <<-5, 5>>}

Closes(pad, tail) == [i \in 1..pad |-> 100] \o tail

Bars(closes, shape) ==
    [close |-> closes,
     high |-> [i \in 1..Len(closes) |-> closes[i] + shape[1]],
     low |-> [i \in 1..Len(closes) |-> closes[i] - shape[2]],
     volume |-> [i \in 1..Len(closes) |-> 1000000]]

WellFormedInputs ==
    {Bars(Closes(pad, tail), shape) : pad \in Pads, tail \in Tails, shape \in Shapes}

FlatInputs == {Bars(Closes(pad, << >>), <<5, 5>>) : pad \in Pads}

\* records the data layer never builds: a field missing, a value that is not
\* a number, arrays of unequal length
MalformedInputs ==
    {Without(sd, drop) : sd \in FlatInputs, drop \in (SUBSET OhlcvFields) \ {{}}}
    \cup {[sd EXCEPT ![f] = Append(sd[f], Text)] : sd \in FlatInputs, f \in OhlcvFields}
    \cup {[sd EXCEPT ![f] = Append(sd[f], 100)] : sd \in FlatInputs, f \in OhlcvFields}

\* the variables of analyze, of a scalar call and of backtest while another
\* operation is under analysis
NoAnalysis ==
    /\ ticker = ""
    /\ response = None
    /\ trend = None
    /\ realized = NaN
    /\ support = NaN
    /\ resistance = NaN

NoCall == args = None

NoBacktest ==
    /\ df = << >>
    /\ row = 0
    /\ balance = NaN
    /\ position = NaN
    /\ equity = NaN
    /\ equity_curve = << >>

-----------------------------------------------------------------------------
(* calculate_indicators applied to one input.                              *)

InitIndicators ==
    /\ pc = "start"
    /\ stock_data \in WellFormedInputs \cup MalformedInputs
    /\ indicators = None
    /\ predictions = None
    /\ signal = "unset"
    /\ risk_level = "unset"
    /\ ret = NaN
    /\ raised = "none"
    /\ NoAnalysis /\ NoCall /\ NoBacktest

CalculateIndicators ==
    /\ pc = "start"
    /\ LET result == calculate_indicators(stock_data)
       IN  /\ indicators' = result.value
           /\ raised' = result.raised
    /\ pc' = "done"
    /\ UNCHANGED <<stock_data, predictions, signal, risk_level, ret,
                   analyzeVars, args, backtestVars>>

NextIndicators == CalculateIndicators

SpecIndicators == InitIndicators /\ [][NextIndicators]_vars

-----------------------------------------------------------------------------
(* Properties of calculate_indicators.                                     *)

IndicatorKeys ==
    {"rsi", "macd", "macd_signal", "macd_histogram", "ma20", "ma50", "ma200",
     "ema12", "ema26", "bb_upper", "bb_middle", "bb_lower", "stoch_k", "stoch_d",
     "atr", "volume_ma"}

MinimalKeys == {"rsi", "macd", "ma20", "ma50"}

\* the record has its four arrays, of numbers, of one length
SoundRecord(sd) ==
    /\ OhlcvFields \subseteq DOMAIN sd
    /\ \A f \in OhlcvFields : \A i \in 1..Len(sd[f]) : sd[f][i] # Text
    /\ \A f \in OhlcvFields : Len(sd[f]) = Len(sd["close"])

Returned == pc = "done" /\ raised = "none"

BarCount == Len(stock_data["close"])

\* every bar has low <= close <= high
ValidBars(sd) ==
    \A i \in 1..Len(sd["close"]) :
        sd["low"][i] <= sd["close"][i] /\ sd["close"][i] <= sd["high"][i]

\* a finite number in [0, 100]
InPercentRange(x) == IsRational(x) /\ 0 <= x.n /\ x.n <= 100 * x.d

\* C3 as stated: whatever the input, the returned IndicatorSet has all 16 keys
C3_AllKeysForEveryInput ==
    Returned => IndicatorKeys \subseteq DOMAIN indicators

\* C3 amended: a sound record (an empty or short series included) yields
\* exactly the 16 keys; the catastrophic-failure path yields exactly the
\* four keys rsi, macd, ma20, ma50
C3_KeysBySoundness ==
    Returned =>
        IF SoundRecord(stock_data)
        THEN DOMAIN indicators = IndicatorKeys
        ELSE DOMAIN indicators = MinimalKeys

\* C3 witness: a series shorter than every rolling window got all 16 keys
C3_ShortSeriesWitness ==
    /\ Returned
    /\ SoundRecord(stock_data)
    /\ BarCount \in 1..(RsiPeriod - 1)
    /\ DOMAIN indicators = IndicatorKeys

\* C4 as stated: calculate_indicators never raises outward, it returns the
\* indicator set or the minimal fallback set
C4_NeverRaises ==
    pc = "done" => (raised = "none" /\ ~IsNone(indicators))

\* C5 as stated: the RSI is the fallback 50.0 whenever the series has fewer
\* than 14 samples or the average loss over the window is zero
C5_ZeroLossGivesFallback ==
    (Returned /\ SoundRecord(stock_data)) =>
        LET closes == stock_data["close"]
            n == Len(closes)
        IN  (n < RsiPeriod \/ SumLoss(closes, n - RsiPeriod + 1, n) = 0)
                => indicators["rsi"] = Int2F(50)

\* C5 amended: the RSI is the fallback 50.0 when the series has fewer than 14
\* samples or the window is flat (no gain and no loss); a window with gains
\* and no loss gives 100.0
C5_FlatGivesFallbackGainsGive100 ==
    (Returned /\ SoundRecord(stock_data)) =>
        LET closes == stock_data["close"]
            n == Len(closes)
            gains == SumGain(closes, n - RsiPeriod + 1, n)
            losses == SumLoss(closes, n - RsiPeriod + 1, n)
        IN  /\ n < RsiPeriod => indicators["rsi"] = Int2F(50)
            /\ (n >= RsiPeriod /\ gains = 0 /\ losses = 0)
                   => indicators["rsi"] = Int2F(50)
            /\ (n >= RsiPeriod /\ gains > 0 /\ losses = 0)
                   => indicators["rsi"] = Int2F(100)

\* C5 witness: a full window with a gain and no loss
C5_GainsOnlyWitness ==
    /\ Returned
    /\ SoundRecord(stock_data)
    /\ BarCount >= RsiPeriod
    /\ SumGain(stock_data["close"], BarCount - RsiPeriod + 1, BarCount) > 0
    /\ SumLoss(stock_data["close"], BarCount - RsiPeriod + 1, BarCount) = 0

OscillatorsInRange ==
    /\ InPercentRange(indicators["rsi"])
    /\ InPercentRange(indicators["stoch_k"])
    /\ InPercentRange(indicators["stoch_d"])
    /\ BarCount < StochKPeriod =>
           indicators["stoch_k"] = Int2F(50) /\ indicators["stoch_d"] = Int2F(50)

\* C6 as stated: for every non-empty series, whatever the relation of low,
\* close and high, rsi, stoch_k and stoch_d lie in [0, 100]
C6_RangeForEverySeries ==
    (Returned /\ SoundRecord(stock_data) /\ BarCount >= 1) => OscillatorsInRange

\* C6 amended: for every non-empty series whose bars have low <= close <=
\* high, rsi, stoch_k and stoch_d lie in [0, 100], and stoch_k and stoch_d
\* are 50.0 while the 14-bar window is not full
C6_RangeForValidBars ==
    (Returned /\ SoundRecord(stock_data) /\ BarCount >= 1 /\ ValidBars(stock_data))
        => OscillatorsInRange

\* C6 witness: valid bars, full windows, oscillators away from the fallback
C6_ValidBarsWitness ==
    /\ Returned
    /\ SoundRecord(stock_data)
    /\ ValidBars(stock_data)
    /\ BarCount >= StochKPeriod + StochDPeriod
    /\ indicators["stoch_k"] # Int2F(50)
    /\ indicators["stoch_d"] # Int2F(50)
    /\ indicators["rsi"] # Int2F(50)

\* last_close * num / den
Scaled(sd, num, den) ==
    IF Len(sd["close"]) = 0 THEN Int2F(0) ELSE Num(Last(sd["close"]) * num, den)

\* C7 as stated: with fewer than 20 closes, or none, the bands are the
\* fallback last_close * 1.05, last_close, last_close * 0.95, and no band is
\* ever NaN
C7_BollingerFallback ==
    (Returned /\ SoundRecord(stock_data)) =>
        /\ BarCount < BollingerPeriod =>
               /\ indicators["bb_upper"] = Scaled(stock_data, 105, 100)
               /\ indicators["bb_middle"] = Scaled(stock_data, 1, 1)
               /\ indicators["bb_lower"] = Scaled(stock_data, 95, 100)
        /\ ~IsNaN(indicators["bb_upper"])
        /\ ~IsNaN(indicators["bb_middle"])
        /\ ~IsNaN(indicators["bb_lower"])

-----------------------------------------------------------------------------
(* The decision layer applied to one IndicatorSet, in the order of analyze. *)

\* every RSI from 0 to 100 in steps of one half
RsiGrid == {Num(h, 2) : h \in 0..200}

MacdGrid == {Num(m, 2) : m \in -2..2}

ClassifierInputs ==
    {[rsi |-> r, macd |-> m] : r \in RsiGrid, m \in MacdGrid}
    \cup {[rsi |-> r] : r \in RsiGrid}
    \cup {[macd |-> m] : m \in MacdGrid}

InitClassifier ==
    /\ pc = "start"
    /\ stock_data = None
    /\ indicators \in ClassifierInputs
    /\ predictions = None
    /\ signal = "unset"
    /\ risk_level = "unset"
    /\ ret = NaN
    /\ raised = "none"
    /\ NoAnalysis /\ NoCall /\ NoBacktest

DetermineSignal ==
    /\ pc = "start"
    /\ signal' = determine_signal(indicators)
    /\ pc' = "signal"
    /\ UNCHANGED <<stock_data, indicators, predictions, risk_level, ret, raised,
                   analyzeVars, args, backtestVars>>

DetermineRiskLevel ==
    /\ pc = "signal"
    /\ risk_level' = determine_risk_level(indicators)
    /\ pc' = "done"
    /\ UNCHANGED <<stock_data, indicators, predictions, signal, ret, raised,
                   analyzeVars, args, backtestVars>>

NextClassifier == DetermineSignal \/ DetermineRiskLevel

SpecClassifier == InitClassifier /\ [][NextClassifier]_vars

\* the inputs of the decision layer, with the defaults of dict.get
RsiIn == Get(indicators, "rsi", Int2F(50))

MacdIn == Get(indicators, "macd", Int2F(0))

RsiBucket == IF FLt(RsiIn, Int2F(30)) THEN "low"
             ELSE IF FGt(RsiIn, Int2F(70)) THEN "high" ELSE "mid"

MacdSign == SignOf(MacdIn)

BuyVotes == (IF RsiBucket = "low" THEN 1 ELSE 0) + (IF MacdSign > 0 THEN 1 ELSE 0)

SellVotes == (IF RsiBucket = "high" THEN 1 ELSE 0) + (IF MacdSign < 0 THEN 1 ELSE 0)

\* the 9 combinations of RSI bucket and MACD sign
SignalTable ==
    [b \in {"low", "mid", "high"}, m \in {-1, 0, 1} |->
        IF b = "low" THEN (IF m < 0 THEN "HOLD" ELSE "BUY")
        ELSE IF b = "mid" THEN (IF m < 0 THEN "SELL" ELSE IF m = 0 THEN "HOLD" ELSE "BUY")
        ELSE (IF m > 0 THEN "HOLD" ELSE "SELL")]

\* C1: the signal is BUY iff buy-votes exceed sell-votes, SELL iff sell-votes
\* exceed buy-votes, HOLD otherwise, in each of the 9 combinations of RSI
\* bucket and MACD sign; a tie gives HOLD
C1_SignalByVotes ==
    pc \in {"signal", "done"} =>
        /\ signal = "BUY" <=> BuyVotes > SellVotes
        /\ signal = "SELL" <=> SellVotes > BuyVotes
        /\ signal = "HOLD" <=> BuyVotes = SellVotes
        /\ signal = SignalTable[RsiBucket, MacdSign]

\* C1 witness: RSI below 30 against a negative MACD, a tie that gave HOLD
C1_TieWitness ==
    /\ pc = "signal"
    /\ RsiBucket = "low"
    /\ MacdSign < 0
    /\ signal = "HOLD"

\* distance of the RSI from 50, doubled to stay an integer on the grid
RsiDistance(r) == Abs(((2 * r.n) \div r.d) - 100)

RiskRank(level) == IF level = "High" THEN 2 ELSE IF level = "Medium" THEN 1 ELSE 0

BoundaryRisk ==
    <<<<29, "High">>, <<30, "Medium">>, <<39, "Medium">>, <<40, "Low">>,
      <<60, "Low">>, <<61, "Medium">>, <<69, "Medium">>, <<70, "Medium">>,
      <<71, "High">>>>

\* C2: the risk level is High beyond 70 or below 30, else Medium beyond 60 or
\* below 40, else Low; the boundary values 29..71 map as listed, and the
\* level never decreases as the distance of the RSI from 50 grows
C2_RiskByDistance ==
    pc = "done" =>
        /\ risk_level = IF RsiDistance(RsiIn) > 40 THEN "High"
                        ELSE IF RsiDistance(RsiIn) > 20 THEN "Medium" ELSE "Low"
        /\ \A i \in DOMAIN BoundaryRisk :
               RsiIn = Int2F(BoundaryRisk[i][1]) => risk_level = BoundaryRisk[i][2]
        /\ \A r \in RsiGrid :
               RsiDistance(r) >= RsiDistance(RsiIn) =>
                   RiskRank(determine_risk_level([rsi |-> r])) >= RiskRank(risk_level)

\* C2 witness: the boundary value 70 classified Medium
C2_BoundaryWitness ==
    /\ pc = "done"
    /\ RsiIn = Int2F(70)
    /\ risk_level = "Medium"

-----------------------------------------------------------------------------
(* linear_regression_predict applied to one series of closes.              *)

MaxSamples == 32

\* a line from 100 with the given step, its last sample moved by bump
Ramp(step, n, bump) ==
    [i \in 1..n |-> 100 + step * (i - 1) + (IF i = n THEN bump ELSE 0)]

RegressionInputs ==
    {Ramp(step, n, bump) : step \in -2..2, n \in 0..MaxSamples, bump \in {-1, 0, 1}}

InitRegression ==
    /\ pc = "start"
    /\ stock_data \in {[close |-> prices] : prices \in RegressionInputs}
    /\ indicators = None
    /\ predictions = None
    /\ signal = "unset"
    /\ risk_level = "unset"
    /\ ret = NaN
    /\ raised = "none"
    /\ NoAnalysis /\ NoCall /\ NoBacktest

LinearRegressionPredict ==
    /\ pc = "start"
    /\ ret' = linear_regression_predict(stock_data["close"])
    /\ pc' = "done"
    /\ UNCHANGED <<stock_data, indicators, predictions, signal, risk_level, raised,
                   analyzeVars, args, backtestVars>>

NextRegression == LinearRegressionPredict

SpecRegression == InitRegression /\ [][NextRegression]_vars

\* C8 as stated: for close[i] = 100 + i, i in 0..29, the forecast 5 periods
\* ahead is 134
C8_LinearForecastIs134 ==
    (pc = "done" /\ stock_data["close"] = [i \in 1..30 |-> 100 + (i - 1)])
        => ret = Int2F(134)

-----------------------------------------------------------------------------
(* predict_price applied to one series of closes and one IndicatorSet.     *)

\* the lowest and the highest step of the random perturbation
Draws == {-DrawScale, DrawScale - 1}

ForecastCloses ==
    {[close |-> Closes(pad, tail)] : pad \in Pads, tail \in Tails}
    \cup {[close |-> Append(Closes(pad, << >>), Text)] : pad \in Pads}
    \cup {[close |-> <<Text>> \o Closes(pad, << >>)] : pad \in Pads}
    \cup {[volume |-> Closes(pad, << >>)] : pad \in Pads}

ForecastIndicators ==
    {None,
     << >>,
     [rsi |-> Int2F(25), macd |-> Int2F(1), ma20 |-> Int2F(95), ma50 |-> Int2F(90)],
     [rsi |-> Int2F(75), macd |-> Int2F(-1), ma20 |-> Int2F(105), ma50 |-> Int2F(110)]}

InitForecast ==
    /\ pc = "start"
    /\ stock_data \in ForecastCloses
    /\ indicators \in ForecastIndicators
    /\ predictions = None
    /\ signal = "unset"
    /\ risk_level = "unset"
    /\ ret = NaN
    /\ raised = "none"
    /\ NoAnalysis /\ NoCall /\ NoBacktest

PredictPrice ==
    /\ pc = "start"
    /\ \E d1 \in Draws, d2 \in Draws, d3 \in Draws :
           LET result == predict_price(stock_data, indicators, <<d1, d2, d3>>)
           IN  /\ predictions' = result.value
               /\ raised' = result.raised
    /\ pc' = "done"
    /\ UNCHANGED <<stock_data, indicators, signal, risk_level, ret,
                   analyzeVars, args, backtestVars>>

NextForecast == PredictPrice

SpecForecast == InitForecast /\ [][NextForecast]_vars

-----------------------------------------------------------------------------
(* Claims about predict_price.                                             *)

ForecastKeys == {"next_hour", "next_day", "next_week", "confidence", "ml_prediction"}

\* a record whose 'close' is a list of numbers
SoundCloses(sd) == Has(sd, "close") /\ AllNumeric(sd["close"])

\* the volatility the formula of the confidence is given: the figure of
\* calculate_volatility, 2.0 where that figure is undefined
VolatilityOrFallback(prices) ==
    IF IsNum(calculate_volatility(prices)) THEN calculate_volatility(prices)
    ELSE Int2F(2)

\* a finite value, rational or not, between 0 and 100
WithinPercent(x) == IsNum(x) /\ CmpInt(x, 0) >= 0 /\ CmpInt(x, 100) <= 0

ConfidenceByFormula(prices) ==
    calculate_confidence(VolatilityOrFallback(prices), Len(prices))

\* C9: for every series of at least one close (a single one included) and an
\* IndicatorSet, predict_price returns a confidence in [0, 100] that is 70
\* minus min(2 * volatility, 30) minus (30 - sample_count) when fewer than 30
\* samples exist, and exactly 70 for volatility 0 and 30 samples or more.
C9_ConfidenceByFormula ==
    (pc = "done" /\ SoundCloses(stock_data) /\ ~IsNone(indicators)
        /\ Len(stock_data["close"]) >= 1)
    => /\ raised = "none"
       /\ Has(predictions, "confidence")
       /\ WithinPercent(predictions["confidence"])
       /\ predictions["confidence"] = ConfidenceByFormula(stock_data["close"])
       /\ (VolatilityOrFallback(stock_data["close"]) = Int2F(0)
              /\ Len(stock_data["close"]) >= 30)
          => predictions["confidence"] = Int2F(70)

\* C10: whenever the body of predict_price fails, the call does not raise and
\* returns a complete Forecast (next_hour, next_day, next_week, confidence,
\* ml_prediction) whose three horizons are the last close and whose
\* confidence is 50.
C10_FailureGivesCompleteForecast ==
    (pc = "done" /\ ForecastFails(stock_data, indicators))
    => /\ raised = "none"
       /\ DOMAIN predictions = ForecastKeys
       /\ predictions["confidence"] = Int2F(50)
       /\ (SoundCloses(stock_data) /\ Len(stock_data["close"]) >= 1)
          => \A h \in {"next_hour", "next_day", "next_week"} :
                 predictions[h] = Int2F(Last(stock_data["close"]))

-----------------------------------------------------------------------------
(* The analyze endpoint applied to one request and to what get_stock_data  *)
(* gave for it.                                                            *)

Tickers == {"", "AAPL"}

\* get_stock_data's record for an unknown ticker
ErrorRecord == [error |-> "No data found"]

\* a record of no bar at all
EmptyBars == Bars(<< >>, <<0, 0>>)

ShortTails == {<< >>} \cup {<<x>> : x \in TailValues}

\* records of at most two bars
ShortInputs == {Bars(Closes(pad, << >>), <<5, 5>>) : pad \in 0..2}

\* records with a field missing, a text element or one element too many
MalformedRequests ==
    {Without(sd, drop) : sd \in ShortInputs, drop \in (SUBSET OhlcvFields) \ {{}}}
    \cup {[sd EXCEPT ![f] = Append(sd[f], Text)] : sd \in ShortInputs, f \in OhlcvFields}
    \cup {[sd EXCEPT ![f] = <<Text>> \o sd[f]] : sd \in ShortInputs, f \in OhlcvFields}
    \cup {[sd EXCEPT ![f] = Append(sd[f], 100)] : sd \in ShortInputs, f \in OhlcvFields}

AnalyzeInputs ==
    {ErrorRecord, << >>, EmptyBars}
    \cup {Bars(Closes(pad, tail), shape) :
              pad \in Pads, tail \in ShortTails, shape \in {<<0, 0>>, <<5, 5>>}}
    \cup MalformedRequests

InitAnalyze ==
    /\ pc = "start"
    /\ ticker \in Tickers
    /\ stock_data \in AnalyzeInputs
    /\ indicators = None
    /\ predictions = None
    /\ signal = "unset"
    /\ risk_level = "unset"
    /\ ret = NaN
    /\ raised = "none"
    /\ response = None
    /\ trend = None
    /\ realized = NaN
    /\ support = NaN
    /\ resistance = NaN
    /\ NoCall /\ NoBacktest

\* what calculate_indicators does for the request, if analyze calls it
IndicatorsCall(sd) ==
    IF DOMAIN sd = {} \/ Has(sd, "error")
    THEN [raised |-> "none", value |-> None]
    ELSE calculate_indicators(sd)

\* what predict_price does for the request, if analyze calls it
PredictCall(sd, ci, draws) ==
    IF IsNone(ci.value)
    THEN [raised |-> ci.raised, value |-> None]
    ELSE predict_price(sd, ci.value, draws)

\* one request; the locals of a request answered with an error are lost
Analyze ==
    /\ pc = "start"
    /\ \E d1 \in Draws, d2 \in Draws, d3 \in Draws :
       \E ci \in {IndicatorsCall(stock_data)} :
       \E pp \in {PredictCall(stock_data, ci, <<d1, d2, d3>>)} :
       \E status \in {analyze_status(ticker, stock_data, ci, pp)} :
         \/ /\ status = 200
            /\ \E result \in {Analysis(stock_data, ci.value, pp.value)} :
                 /\ response' = [status |-> 200, body |-> result.body]
                 /\ indicators' = result.indicators
                 /\ predictions' = result.predictions
                 /\ signal' = result.signal
                 /\ trend' = result.trend
                 /\ realized' = result.realized
                 /\ risk_level' = result.risk_level
                 /\ support' = result.support
                 /\ resistance' = result.resistance
         \/ /\ status # 200
            /\ response' = [status |-> status, body |-> "error"]
            /\ UNCHANGED <<indicators, predictions, signal, trend, realized,
                           risk_level, support, resistance>>
    /\ pc' = "done"
    /\ UNCHANGED <<ticker, stock_data, ret, raised, args, backtestVars>>

NextAnalyze == Analyze

SpecAnalyze == InitAnalyze /\ [][NextAnalyze]_vars

\* the series handed to analyze has no bar
NoBars(sd) ==
    \/ Has(sd, "error")
    \/ DOMAIN sd = {}
    \/ \A f \in {"close", "high", "low"} : Has(sd, f) /\ Len(sd[f]) = 0

FlatSeries == Bars(Closes(60, << >>), <<0, 0>>)

\* C12: 60 flat bars at 100 with volume 1,000,000 give rsi 50, macd 0,
\* ma20 = ma50 = 100, bb_upper = bb_lower = 100, atr 0, signal HOLD, risk
\* level Low, volatility 0 and support = resistance = 100.
C12_FlatScenario ==
    (pc = "done" /\ ticker # "" /\ stock_data = FlatSeries)
    => /\ response.status = 200
       /\ indicators["rsi"] = Int2F(50)
       /\ indicators["macd"] = Int2F(0)
       /\ indicators["ma20"] = Int2F(100)
       /\ indicators["ma50"] = Int2F(100)
       /\ indicators["bb_upper"] = Int2F(100)
       /\ indicators["bb_lower"] = Int2F(100)
       /\ indicators["atr"] = Int2F(0)
       /\ signal = "HOLD"
       /\ risk_level = "Low"
       /\ realized = Int2F(0)
       /\ support = Int2F(100)
       /\ resistance = Int2F(100)

C12_FlatWitness ==
    /\ pc = "done"
    /\ stock_data = FlatSeries
    /\ Len(stock_data["close"]) = 60
    /\ \A j \in 1..60 : stock_data["volume"][j] = 1000000
    /\ response.status = 200
    /\ signal = "HOLD"

-----------------------------------------------------------------------------
(* predict_next_period applied to one set of arguments and one draw.       *)

Horizons == {1, 24, 168}

\* trend strengths in twentieths, volatilities in halves of a percent
PerturbationInputs ==
    {[current_price |-> p, trend_strength |-> Num(t, 20), volatility |-> Num(v, 2),
      hours |-> h, draw |-> d] :
        p \in {50, 100}, t \in {-20, -10, 0, 10, 20}, v \in {0, 1, 4, 10},
        h \in Horizons, d \in (-DrawScale)..(DrawScale - 1)}

InitPerturbation ==
    /\ pc = "start"
    /\ args \in PerturbationInputs
    /\ stock_data = None
    /\ indicators = None
    /\ predictions = None
    /\ signal = "unset"
    /\ risk_level = "unset"
    /\ ret = NaN
    /\ raised = "none"
    /\ NoAnalysis /\ NoBacktest

PredictNextPeriod ==
    /\ pc = "start"
    /\ ret' = predict_next_period(args.current_price, args.trend_strength,
                                  args.volatility, args.hours, args.draw)
    /\ pc' = "done"
    /\ UNCHANGED <<stock_data, indicators, predictions, signal, risk_level, raised,
                   analyzeVars, args, backtestVars>>

NextPerturbation == PredictNextPeriod

SpecPerturbation == InitPerturbation /\ [][NextPerturbation]_vars

\* |trend_factor - 1| for the arguments of the call
TrendShift ==
    LET shift == FMul(args.trend_strength, Num(args.hours, 1000))
    IN  Num(Abs(shift.n), shift.d)

\* volatility / 100
Spread == FMul(args.volatility, Num(1, 100))

\* ret lies within current_price * (1 - width) and current_price * (1 + width)
WithinBand(width) ==
    LET price == Int2F(args.current_price)
        lower == FMul(price, FSub(Int2F(1), width))
        upper == FMul(price, FAdd(Int2F(1), width))
    IN  SignOf(FSub(ret, lower)) >= 0 /\ SignOf(FSub(upper, ret)) >= 0

\* C13 as stated: the prediction lies within
\* current_price * (1 +/- (|trend_factor - 1| + volatility / 100))
C13_WithinStatedBand ==
    pc = "done" => WithinBand(FAdd(TrendShift, Spread))

\* C13 amended: for current_price > 0, trend_strength in [-1, 1],
\* volatility >= 0 and every draw of the perturbation, the prediction lies
\* within current_price * (1 +/- (s + v + s * v)), where s is
\* |trend_factor - 1| and v is volatility / 100.
C13_WithinProductBand ==
    pc = "done" => WithinBand(FAdd(FAdd(TrendShift, Spread), FMul(TrendShift, Spread)))

\* a rising trend and a draw near the top of the range: outside the stated band
C13_ProductWitness ==
    /\ pc = "done"
    /\ args.trend_strength = Int2F(1)
    /\ args.hours = 168
    /\ args.volatility = Int2F(5)
    /\ args.draw = DrawScale - 1
    /\ ~WithinBand(FAdd(TrendShift, Spread))

-----------------------------------------------------------------------------
(* determine_trend applied, for the three timeframes, to one IndicatorSet. *)

\* moving averages in halves, around the default 0 of dict.get
MaGrid == {Num(h, 2) : h \in -6..6}

TrendInputs ==
    {[ma20 |-> x, ma50 |-> y] : x \in MaGrid, y \in MaGrid}
    \cup {[ma20 |-> x] : x \in MaGrid}
    \cup {[ma50 |-> y] : y \in MaGrid}
    \cup {[rsi |-> Int2F(50)]}

InitTrend ==
    /\ pc = "start"
    /\ indicators \in TrendInputs
    /\ stock_data = None
    /\ predictions = None
    /\ signal = "unset"
    /\ risk_level = "unset"
    /\ ret = NaN
    /\ raised = "none"
    /\ NoAnalysis /\ NoCall /\ NoBacktest

DetermineTrend ==
    /\ pc = "start"
    /\ trend' = TrendLabels(indicators)
    /\ pc' = "done"
    /\ UNCHANGED <<stock_data, indicators, predictions, signal, risk_level, ret,
                   raised, ticker, response, realized, support, resistance, args,
                   backtestVars>>

NextTrend == DetermineTrend

SpecTrend == InitTrend /\ [][NextTrend]_vars

\* ma20 - ma50 of the IndicatorSet, an absent key counting 0, as a sign
MaOrder ==
    LET x == IF "ma20" \in DOMAIN indicators THEN indicators["ma20"] ELSE Num(0, 1)
        y == IF "ma50" \in DOMAIN indicators THEN indicators["ma50"] ELSE Num(0, 1)
    IN  Sign(x.n * y.d - y.n * x.d)

\* C14: the three labels of determine_trend are identical, and each is
\* Bullish when ma20 > ma50, Bearish when ma20 < ma50 and Neutral when they
\* are equal, absent keys counting 0.
C14_OneLabelForAllTimeframes ==
    pc = "done"
    => /\ trend.short_term = trend.medium_term
       /\ trend.medium_term = trend.long_term
       /\ trend.long_term = CASE MaOrder > 0 -> "Bullish"
                              [] MaOrder < 0 -> "Bearish"
                              [] OTHER -> "Neutral"

\* both keys absent: Neutral three times
C14_DefaultsWitness ==
    /\ pc = "done"
    /\ "ma20" \notin DOMAIN indicators
    /\ "ma50" \notin DOMAIN indicators
    /\ trend = [short_term |-> "Neutral", medium_term |-> "Neutral",
                long_term |-> "Neutral"]

-----------------------------------------------------------------------------
(* calculate_support and calculate_resistance applied to one record.       *)

MaxBars == 24

\* bars with low 95 and high 105, one of which may dip to 80, peak at 120,
\* do both, or be inverted (low 110 above high 105)
LevelKinds == {"dip", "peak", "both", "inverted"}

LevelBars(n, at, kind) ==
    [low |-> [j \in 1..n |-> IF j # at THEN 95
                             ELSE IF kind \in {"dip", "both"} THEN 80
                             ELSE IF kind = "inverted" THEN 110 ELSE 95],
     high |-> [j \in 1..n |-> IF j = at /\ kind \in {"peak", "both"} THEN 120 ELSE 105]]

LevelInputs ==
    {LevelBars(n, at, kind) : n \in 0..MaxBars, at \in 0..MaxBars, kind \in LevelKinds}
    \cup {[close |-> Closes(n, << >>)] : n \in 0..2}

InitLevels ==
    /\ pc = "start"
    /\ stock_data \in LevelInputs
    /\ indicators = None
    /\ predictions = None
    /\ signal = "unset"
    /\ risk_level = "unset"
    /\ ret = NaN
    /\ raised = "none"
    /\ NoAnalysis /\ NoCall /\ NoBacktest

CalculateSupport ==
    /\ pc = "start"
    /\ support' = calculate_support(stock_data)
    /\ pc' = "support"
    /\ UNCHANGED <<stock_data, indicators, predictions, signal, risk_level, ret,
                   raised, ticker, response, trend, realized, resistance, args,
                   backtestVars>>

CalculateResistance ==
    /\ pc = "support"
    /\ resistance' = calculate_resistance(stock_data)
    /\ pc' = "done"
    /\ UNCHANGED <<stock_data, indicators, predictions, signal, risk_level, ret,
                   raised, ticker, response, trend, realized, support, args,
                   backtestVars>>

NextLevels == CalculateSupport \/ CalculateResistance

SpecLevels == InitLevels /\ [][NextLevels]_vars

\* the array under a key, empty when the key is absent
ArrayOf(key) == IF key \in DOMAIN stock_data THEN stock_data[key] ELSE << >>

\* the indices of the trailing 20 elements (all of them when fewer exist)
Trailing(array) ==
    {j \in 1..Len(array) : j > Len(array) - 20}

\* x is the least (sense = 1) or the greatest (sense = -1) of the trailing
\* elements of the array, 0 for an empty array
ExtremeOfTrailing(x, array, sense) ==
    IF Len(array) = 0 THEN x = Num(0, 1)
    ELSE /\ \E j \in Trailing(array) : x = Num(array[j], 1)
         /\ \A j \in Trailing(array) : sense * x.n <= sense * array[j] * x.d

\* C15: support is the minimum low and resistance the maximum high of the
\* trailing 20 bars (of all bars when fewer exist), each is 0 for an empty
\* array, older bars do not matter, and support <= resistance whenever
\* every bar of the window has low <= high.
C15_LevelsOfTrailingWindow ==
    pc = "done"
    => /\ ExtremeOfTrailing(support, ArrayOf("low"), 1)
       /\ ExtremeOfTrailing(resistance, ArrayOf("high"), -1)
       /\ (/\ Len(ArrayOf("low")) = Len(ArrayOf("high"))
           /\ \A j \in Trailing(ArrayOf("low")) :
                  ArrayOf("low")[j] <= ArrayOf("high")[j])
          => support.n * resistance.d <= resistance.n * support.d

\* a dip and a peak older than the window leave both levels alone
C15_OlderBarWitness ==
    /\ pc = "done"
    /\ Len(ArrayOf("low")) > 20
    /\ \E j \in 1..(Len(ArrayOf("low")) - 20) :
           ArrayOf("low")[j] = 80 /\ ArrayOf("high")[j] = 120
    /\ support = Num(95, 1)
    /\ resistance = Num(105, 1)

-----------------------------------------------------------------------------
(* calculate_trend_strength applied to one set of arguments.               *)

StrengthInputs ==
    {[prices |-> <<100>>, ma20 |-> Int2F(x), ma50 |-> Int2F(y),
      rsi |-> Int2F(r), macd |-> Int2F(m)] :
        x \in {95, 100, 105}, y \in {90, 100, 110},
        r \in {25, 30, 40, 50, 60, 70, 75}, m \in {-1, 0, 1}}

InitStrength ==
    /\ pc = "start"
    /\ args \in StrengthInputs
    /\ stock_data = None
    /\ indicators = None
    /\ predictions = None
    /\ signal = "unset"
    /\ risk_level = "unset"
    /\ ret = NaN
    /\ raised = "none"
    /\ NoAnalysis /\ NoBacktest

CalculateTrendStrength ==
    /\ pc = "start"
    /\ ret' = calculate_trend_strength(args.prices, args.ma20, args.ma50,
                                       args.rsi, args.macd)
    /\ pc' = "done"
    /\ UNCHANGED <<stock_data, indicators, predictions, signal, risk_level, raised,
                   analyzeVars, args, backtestVars>>

NextStrength == CalculateTrendStrength

SpecStrength == InitStrength /\ [][NextStrength]_vars

\* sign of x - y for two rationals
Order(x, y) == Sign(x.n * y.d - y.n * x.d)

\* the four terms of the claim, in hundredths
PriceTerm == 30 * Order(Num(args.prices[Len(args.prices)], 1), args.ma20)

AverageTerm == 20 * Order(args.ma20, args.ma50)

RsiTerm ==
    CASE Order(args.rsi, Num(70, 1)) > 0 -> -30
      [] Order(args.rsi, Num(50, 1)) > 0 -> 15
      [] Order(args.rsi, Num(50, 1)) = 0 -> 0
      [] Order(args.rsi, Num(30, 1)) >= 0 -> -15
      [] OTHER -> 30

MacdTerm == 20 * Order(args.macd, Num(0, 1))

TermSum == PriceTerm + AverageTerm + RsiTerm + MacdTerm

\* C16: calculate_trend_strength returns the sum of the four terms (close vs
\* ma20 +-0.3, ma20 vs ma50 +-0.2, RSI -0.3 / +0.15 / 0 / -0.15 / +0.3,
\* MACD +-0.2); the sum lies in [-1, 1], so the clamp changes nothing.
C16_StrengthIsTermSum ==
    pc = "done"
    => /\ -100 <= TermSum /\ TermSum <= 100
       /\ ret.k = "num" /\ ret.a = 0
       /\ ret.n * 100 = TermSum * ret.d

\* every term at its largest: the sum is exactly 1
C16_FullStrengthWitness ==
    /\ pc = "done"
    /\ TermSum = 100
    /\ ret = Num(1, 1)

-----------------------------------------------------------------------------
(* backtest applied to one frame of (Close, RSI) rows.                     *)

MaxRows == 4

\* positive closes; RSI values on both sides of 30 and 70, and the NaN of
\* the rows that precede the first full RSI window
Rows ==
    {[Close |-> c, RSI |-> Int2F(r)] : c \in {30, 50}, r \in {25, 30, 70, 75}}
    \cup {[Close |-> 50, RSI |-> NaN]}

\* row 0 is never read by the loop
Frames ==
    {<< >>}
    \cup UNION {{<<[Close |-> 50, RSI |-> NaN]>> \o rest : rest \in [1..n -> Rows]} :
                    n \in 0..(MaxRows - 1)}

InitBacktest ==
    /\ pc = "loop"
    /\ df \in Frames
    /\ row = 1
    /\ balance = Int2F(StartBalance)
    /\ position = Int2F(0)
    /\ equity = NaN
    /\ equity_curve = << >>
    /\ stock_data = None
    /\ indicators = None
    /\ predictions = None
    /\ signal = "unset"
    /\ risk_level = "unset"
    /\ ret = NaN
    /\ raised = "none"
    /\ NoAnalysis /\ NoCall

\* df["Close"].iloc[i] and df["RSI"].iloc[i] of the iteration at hand
Price == Int2F(df[row + 1].Close)

Rsi == df[row + 1].RSI

\* the end of an iteration: the equity is valued and recorded
Record(cash, held) ==
    /\ equity' = FAdd(cash, FMul(held, Price))
    /\ equity_curve' = Append(equity_curve, Round2(FAdd(cash, FMul(held, Price))))
    /\ row' = row + 1
    /\ UNCHANGED <<pc, df, stock_data, indicators, predictions, signal, risk_level,
                   ret, raised, analyzeVars, args>>

\* an iteration that buys
Buy ==
    /\ pc = "loop" /\ row < Len(df)
    /\ Buys(Rsi, position)
    /\ position' = FDiv(balance, Price)
    /\ balance' = Int2F(0)
    /\ Record(Int2F(0), FDiv(balance, Price))

\* an iteration that sells
Sell ==
    /\ pc = "loop" /\ row < Len(df)
    /\ Sells(Rsi, position)
    /\ balance' = FMul(position, Price)
    /\ position' = Int2F(0)
    /\ Record(FMul(position, Price), Int2F(0))

\* an iteration that does not trade
Hold ==
    /\ pc = "loop" /\ row < Len(df)
    /\ ~Buys(Rsi, position) /\ ~Sells(Rsi, position)
    /\ UNCHANGED <<balance, position>>
    /\ Record(balance, position)

\* after the loop: equity_curve[-1] raises IndexError on an empty curve
Return ==
    /\ pc = "loop" /\ row >= Len(df)
    /\ IF Len(equity_curve) = 0
       THEN raised' = "IndexError" /\ ret' = None
       ELSE raised' = "none" /\ ret' = BacktestResult(equity_curve)
    /\ pc' = "done"
    /\ UNCHANGED <<stock_data, indicators, predictions, signal, risk_level,
                   analyzeVars, args, backtestVars>>

NextBacktest == Buy \/ Sell \/ Hold \/ Return

SpecBacktest == InitBacktest /\ [][NextBacktest]_vars

\* the account is all cash or all shares
InCash == balance.k = "num" /\ balance.n > 0 /\ position = Num(0, 1)

Invested == position.k = "num" /\ position.n > 0 /\ balance = Num(0, 1)

\* the RSI and the close the step at hand reads, as plain numbers
RsiBelow(level) == df[row + 1].RSI.k = "num" /\ df[row + 1].RSI.n < level * df[row + 1].RSI.d

RsiAbove(level) == df[row + 1].RSI.k = "num" /\ df[row + 1].RSI.n > level * df[row + 1].RSI.d

\* the holdings before the step, valued at the step's close
Holdings == FAdd(balance, FMul(position, Num(df[row + 1].Close, 1)))

\* one step of the loop, as the claim describes it
AccountStep ==
    /\ (InCash /\ Invested') => (RsiBelow(30) /\ equity' = Holdings)
    /\ (Invested /\ InCash') => (RsiAbove(70) /\ equity' = Holdings)
    /\ (InCash /\ InCash') => (balance' = balance /\ ~RsiBelow(30))
    /\ (Invested /\ Invested') => (position' = position /\ ~RsiAbove(70))

\* C17: after every step the account is either all cash (balance > 0,
\* position = 0) or all shares (balance = 0, position > 0); it starts in
\* cash, a buy happens only from cash with RSI < 30 and a sell only from
\* shares with RSI > 70, so the trades alternate beginning with a buy, and
\* a trading step leaves the equity equal to the holdings before the trade
\* valued at the step's price.
C17_CashOrInvested ==
    /\ [](InCash \/ Invested)
    /\ [][row' # row => AccountStep]_vars

\* a buy, a sell and a second buy
C17_BuySellBuyWitness ==
    /\ Len(equity_curve) = 3
    /\ Invested
    /\ df[2].RSI = Num(25, 1) /\ df[3].RSI = Num(75, 1) /\ df[4].RSI = Num(25, 1)
    /\ df[2].Close = 30 /\ df[3].Close = 50 /\ df[4].Close = 30

====
